---- MODULE Spec2Model ----
(***************************************************************************)
(* get-secretmanager-secrets: the action's run() orchestration and the     *)
(* YAML interpolation engine (interpolate / yamlInterpolateKey /           *)
(* recursiveInterpolate).  Two revisions of the entry file are modelled:   *)
(* src/unnamed/part_000 (two-argument interpolate) and src/src/main.ts     *)
(* (three-argument interpolate with the extension gate).                   *)
(*                                                                         *)
(* Strings the code searches in (scalars, output keys, secret values) are  *)
(* sequences of one-character strings, so that String.includes and         *)
(* String.split are computed and not assumed.                              *)
(***************************************************************************)
EXTENDS Integers, Sequences, FiniteSets, TLC

VARIABLES
    variant,          \* which revision of run() executes
    pc,               \* position of run() / of the interpolate call
    fileExists,       \* fs.existsSync(helmValueFile)
    minMaskLength,    \* parseInt(getInput('min_mask_length')): [nan, n]
    secretsRefs,      \* parseSecretsRefs(secretsInput): sequence of output keys
    refIdx,           \* index of the reference the for-of loop is at
    value,            \* the value the current accessSecret returned
    lineIdx,          \* index of the line the forEach is at
    secretsObject,    \* Record<string,string>, in insertion order: <<[key, value]>>
    fileContent,      \* what helmValueFile holds on disk
    templateContent,  \* the document text handed to interpolate
    fileExtension,    \* third argument of main.ts's interpolate
    result,           \* what interpolate returned or that it threw
    events            \* the run's calls to its collaborators, in order

vars == <<variant, pc, fileExists, minMaskLength, secretsRefs, refIdx, value,
          lineIdx, secretsObject, fileContent, templateContent, fileExtension,
          result, events>>

----------------------------------------------------------------------------
(* Bounds of the model. *)

\* the substitution map handed to interpolate holds at most this many keys
MaxKeys == 2
\* a run resolves at most this many secret references
MaxRefs == 3
\* min_mask_length ranges over 0..MaxMask (and NaN)
MaxMask == 3

----------------------------------------------------------------------------
(* Strings. *)

CR == "\r"
LF == "\n"

Range(f) == {f[n] : n \in DOMAIN f}

\* String.prototype.includes
Includes(s, pat) ==
    \E n \in 0..(Len(s) - Len(pat)) : SubSeq(s, n + 1, n + Len(pat)) = pat

\* `\$${key}`
BarePattern(key) == <<"$">> \o key
\* `\$\{${key}\}`
BracedPattern(key) == <<"$", "{">> \o key \o <<"}">>

----------------------------------------------------------------------------
(* The document tree js-yaml loads: a node carries its JavaScript typeof    *)
(* class, its scalar text, and for containers its keys and children.       *)

Str(s)    == [type |-> "string",    val |-> s,    keys |-> <<>>, kids |-> <<>>]
Num(s)    == [type |-> "number",    val |-> s,    keys |-> <<>>, kids |-> <<>>]
Bool(s)   == [type |-> "boolean",   val |-> s,    keys |-> <<>>, kids |-> <<>>]
Null      == [type |-> "null",      val |-> <<>>, keys |-> <<>>, kids |-> <<>>]
Undefined == [type |-> "undefined", val |-> <<>>, keys |-> <<>>, kids |-> <<>>]
Arr(kids) == [type |-> "array",     val |-> <<>>, keys |-> <<>>, kids |-> kids]
Obj(keys, kids) ==
             [type |-> "object",    val |-> <<>>, keys |-> keys, kids |-> kids]

\* typeof x === "object": objects, arrays and null
TypeofObject(node) == node.type \in {"object", "array", "null"}

(* Document text: js-yaml either rejects it or loads one tree from it; the  *)
(* text also has a layout, which yaml.dump replaces by its own.            *)
SourceText(tree) == [valid |-> TRUE,  tree |-> tree,      layout |-> "source"]
InvalidText      == [valid |-> FALSE, tree |-> Undefined, layout |-> "source"]

\* yaml.load of a text js-yaml accepts (an empty document loads as undefined)
YamlLoad(text) == text.tree
\* yaml.dump of a tree it accepts
YamlDump(tree) == [valid |-> TRUE, tree |-> tree, layout |-> "dumped"]

Returned(text) == [threw |-> FALSE, text |-> text]
Threw          == [threw |-> TRUE,  text |-> InvalidText]

----------------------------------------------------------------------------
(* yamlInterpolateKey and its inner recursiveInterpolate. *)

RECURSIVE recursiveInterpolate(_, _, _)

\* mutant: currVal === searchKey in place of currVal.includes(searchKey)
recursiveInterpolateExact(obj, searchKey, newVal) ==
    IF obj.type \in {"object", "array"}
    THEN [obj EXCEPT !.kids =
            [n \in DOMAIN obj.kids |->
                LET currVal == obj.kids[n] IN
                IF currVal.type = "string" /\ currVal.val = searchKey
                THEN Str(newVal)
                ELSE IF TypeofObject(currVal)
                     THEN recursiveInterpolate(currVal, searchKey, newVal)
                     ELSE currVal]]
    ELSE obj

\* mutant: the typeof currVal === "string" guard dropped, so that an array
\* answers includes() too and is replaced as a whole
recursiveInterpolateArrayIncludes(obj, searchKey, newVal) ==
    IF obj.type \in {"object", "array"}
    THEN [obj EXCEPT !.kids =
            [n \in DOMAIN obj.kids |->
                LET currVal == obj.kids[n] IN
                IF \/ currVal.type = "string" /\ Includes(currVal.val, searchKey)
                   \/ currVal.type = "array" /\ Str(searchKey) \in Range(currVal.kids)
                THEN Str(newVal)
                ELSE IF TypeofObject(currVal)
                     THEN recursiveInterpolate(currVal, searchKey, newVal)
                     ELSE currVal]]
    ELSE obj

recursiveInterpolate(obj, searchKey, newVal) ==
    IF obj.type \in {"object", "array"}
    THEN [obj EXCEPT !.kids =
            [n \in DOMAIN obj.kids |->
                LET currVal == obj.kids[n] IN
                IF currVal.type = "string" /\ Includes(currVal.val, searchKey)
                THEN Str(newVal)
                ELSE IF TypeofObject(currVal)
                     THEN recursiveInterpolate(currVal, searchKey, newVal)
                     ELSE currVal]]
    ELSE obj

\* for...in over a root string visits its characters; obj[key] = newVal on a
\* string primitive is a TypeError in the strict-mode module
AssignsToStringIndex(obj, searchKey) ==
    /\ obj.type = "string"
    /\ \E n \in DOMAIN obj.val : Includes(<<obj.val[n]>>, searchKey)

yamlInterpolateKey(yamlData, searchKey, newVal) ==
    IF ~yamlData.valid THEN Threw
    ELSE IF AssignsToStringIndex(YamlLoad(yamlData), searchKey) THEN Threw
    ELSE LET yamlObject == recursiveInterpolate(YamlLoad(yamlData), searchKey, newVal) IN
         IF yamlObject.type = "undefined" THEN Threw
         ELSE Returned(YamlDump(yamlObject))

----------------------------------------------------------------------------
(* interpolate(secretsObject, templateContent) of part_000. *)

\* one callback of Object.keys(secretsObject).forEach
InterpolateKey(entry, content) ==
    LET bare == yamlInterpolateKey(content, BarePattern(entry.key), entry.value) IN
    IF bare.threw THEN Threw
    ELSE yamlInterpolateKey(bare.text, BracedPattern(entry.key), entry.value)

RECURSIVE InterpolateFrom(_, _, _)
InterpolateFrom(object, n, content) ==
    IF n > Len(object) THEN Returned(content)
    ELSE LET r == InterpolateKey(object[n], content) IN
         IF r.threw THEN Threw ELSE InterpolateFrom(object, n + 1, r.text)

\* mutant: the document parsed once before the keys and dumped once after them
RECURSIVE ParseOnceFrom(_, _, _)
ParseOnceFrom(object, n, tree) ==
    IF n > Len(object) THEN tree
    ELSE ParseOnceFrom(object, n + 1,
            recursiveInterpolate(
                recursiveInterpolate(tree, BarePattern(object[n].key), object[n].value),
                BracedPattern(object[n].key), object[n].value))

interpolateParseOnce(object, content) ==
    IF ~content.valid \/ YamlLoad(content).type = "undefined" THEN Threw
    ELSE Returned(YamlDump(ParseOnceFrom(object, 1, YamlLoad(content))))

interpolate(object, content) == InterpolateFrom(object, 1, content)

----------------------------------------------------------------------------
(* interpolate(secretsObject, templateContent, fileExtension) of main.ts. *)

\* String.prototype.toLowerCase on the extensions the model draws
ToLowerCase(ext) ==
    CASE ext = ".YAML" -> ".yaml"
      [] ext = ".Yml"  -> ".yml"
      [] OTHER         -> ext

interpolate3(object, content, ext) ==
    LET lower == ToLowerCase(ext) IN
    IF lower # ".yaml" \/ lower # ".yml"
    THEN Returned(content)
    \* the forEach callback reads the undeclared `verbose`: ReferenceError
    ELSE IF Len(object) = 0 THEN Returned(content) ELSE Threw

----------------------------------------------------------------------------
(* Inputs the model draws. *)

KeyA  == <<"A">>
KeyAB == <<"A", "B">>
KeyB  == <<"B">>
OutputKeys == {KeyA, KeyAB, KeyB}

\* resolved values; the last is itself a placeholder of key B
SubstitutionValues == {<<"x">>, <<"y">>, <<"$", "B">>}

Entries == [key : OutputKeys, value : SubstitutionValues]

\* a JavaScript object has each key once; Object.keys lists insertion order
SubstitutionMaps ==
    UNION {{m \in [1..n -> Entries] :
                \A a, b \in 1..n : a # b => m[a].key # m[b].key} : n \in 0..MaxKeys}

\* string scalars of the drawn documents
ScalarStrings ==
    { <<"$", "A">>,                  \* $A
      <<"$", "{", "A", "}">>,        \* ${A}
      <<"-", "$", "A">>,             \* -$A   (prefix-$SECRET)
      <<"$", "A", "B">>,             \* $AB
      <<"$", "{", "B", "}">>,        \* ${B}
      <<"$", "A", "-", "$", "B">>,   \* $A-$B
      <<"-">> }                      \* no placeholder

Documents ==
       {Obj(<<"a", "b">>, <<Str(s), Arr(<<Str(t), Num(<<"7">>)>>)>>) :
            s \in ScalarStrings, t \in {<<"$", "A">>, <<"$", "{", "B", "}">>, <<"-">>}}
  \cup {Arr(<<Obj(<<"a">>, <<Obj(<<"b">>, <<Arr(<<Str(s)>>)>>)>>), Null, Bool(<<"t">>)>>) :
            s \in ScalarStrings}
  \cup {Str(s) : s \in ScalarStrings}
  \cup {Undefined, Null, Num(<<"7">>)}

TemplateContents == {SourceText(d) : d \in Documents} \cup {InvalidText}

FileExtensions == {".yaml", ".yml", ".YAML", ".Yml", ".json", ""}

NoResult == [threw |-> FALSE, text |-> InvalidText]
NaN      == [nan |-> TRUE, n |-> 0]
Int0(n)  == [nan |-> FALSE, n |-> n]

----------------------------------------------------------------------------
(* SpecInterp: interpolate applied to drawn inputs. *)

InitInterp ==
    /\ variant = "none"
    /\ pc = "call"
    /\ fileExists = TRUE
    /\ minMaskLength = NaN
    /\ secretsRefs = <<>>
    /\ refIdx = 0
    /\ value = <<>>
    /\ lineIdx = 0
    /\ secretsObject \in SubstitutionMaps
    /\ fileContent = InvalidText
    /\ templateContent \in TemplateContents
    /\ fileExtension = ""
    /\ result = NoResult
    /\ events = <<>>

\* part_000: templateContent = interpolate(secretsObject, templateContent)
CallInterpolate ==
    /\ pc = "call"
    /\ result' = interpolate(secretsObject, templateContent)
    /\ pc' = "called"
    /\ UNCHANGED <<variant, fileExists, minMaskLength, secretsRefs, refIdx, value,
                   lineIdx, secretsObject, fileContent, templateContent,
                   fileExtension, events>>

\* main.ts: templateContent = interpolate(secretsObject, templateContent, fileExtension)
CallInterpolate3 ==
    /\ pc = "call"
    /\ \E ext \in FileExtensions :
          /\ fileExtension' = ext
          /\ result' = interpolate3(secretsObject, templateContent, ext)
    /\ pc' = "called3"
    /\ UNCHANGED <<variant, fileExists, minMaskLength, secretsRefs, refIdx, value,
                   lineIdx, secretsObject, fileContent, templateContent, events>>

NextInterp == CallInterpolate \/ CallInterpolate3

SpecInterp == InitInterp /\ [][NextInterp]_vars

----------------------------------------------------------------------------
(* Vocabulary of the claims about interpolate. *)

\* index paths of the nodes of a tree; <<>> is the root
RECURSIVE Paths(_)
Paths(node) ==
    {<<>>} \cup UNION {{<<n>> \o p : p \in Paths(node.kids[n])} : n \in DOMAIN node.kids}

RECURSIVE At(_, _)
At(node, path) ==
    IF path = <<>> THEN node ELSE At(node.kids[Head(path)], Tail(path))

\* the string scalars held by a mapping or a sequence
StringScalarPaths(tree) ==
    {p \in Paths(tree) : p # <<>> /\ At(tree, p).type = "string"}

HasPlaceholder(s, key) ==
    Includes(s, BarePattern(key)) \/ Includes(s, BracedPattern(key))

InputTree  == YamlLoad(templateContent)
OutputTree == YamlLoad(result.text)
Interpolated == pc = "called" /\ templateContent.valid /\ ~result.threw

MapKeys   == {secretsObject[n].key : n \in DOMAIN secretsObject}
MapValues == {secretsObject[n].value : n \in DOMAIN secretsObject}

\* C1 (as claimed): every string scalar that contains $k or ${k}, for any key k
\* of the map, is in the output exactly k's value.
C1_WholeValueEveryKey ==
    Interpolated =>
        \A n \in DOMAIN secretsObject : \A p \in StringScalarPaths(InputTree) :
            HasPlaceholder(At(InputTree, p).val, secretsObject[n].key)
                => At(OutputTree, p) = Str(secretsObject[n].value)

\* k is the first key, in Object.keys order, whose pattern s contains
FirstMatch(s, n) ==
    /\ HasPlaceholder(s, secretsObject[n].key)
    /\ \A m \in 1..(n - 1) : ~HasPlaceholder(s, secretsObject[m].key)

\* v holds no pattern of a key processed after k
Settled(n) ==
    \A m \in (n + 1)..Len(secretsObject) :
        ~HasPlaceholder(secretsObject[n].value, secretsObject[m].key)

\* C1 (amended): a string scalar that contains $k or ${k} is in the output, whole,
\* the value of a key of the map, never a splice; it is exactly k's value v when k
\* is the first key in key order whose pattern it contains and v contains no
\* pattern of a later key.
C1_WholeValueFirstKey ==
    Interpolated =>
        \A n \in DOMAIN secretsObject : \A p \in StringScalarPaths(InputTree) :
            LET s == At(InputTree, p).val IN
            HasPlaceholder(s, secretsObject[n].key) =>
                /\ p \in Paths(OutputTree)
                /\ At(OutputTree, p).type = "string"
                /\ At(OutputTree, p).val \in MapValues
                /\ (FirstMatch(s, n) /\ Settled(n))
                        => At(OutputTree, p).val = secretsObject[n].value

\* the spec's example: a scalar "-$A" (prefix-$SECRET) became the value of A
C1_Witness ==
    /\ Interpolated
    /\ secretsObject = <<[key |-> KeyA, value |-> <<"x">>]>>
    /\ \E p \in StringScalarPaths(InputTree) :
          /\ Len(p) > 1
          /\ At(InputTree, p).val = <<"-", "$", "A">>
          /\ At(OutputTree, p) = Str(<<"x">>)

\* C2: input and output trees have the same nodes at the same places, the same
\* container kinds, keys and lengths, and the same non-string scalars; only
\* string scalars may differ.
C2_ShapePreserved ==
    Interpolated =>
        /\ Paths(OutputTree) = Paths(InputTree)
        /\ \A p \in Paths(InputTree) :
              LET a == At(InputTree, p)
                  b == At(OutputTree, p) IN
              /\ b.type = a.type
              /\ b.keys = a.keys
              /\ Len(b.kids) = Len(a.kids)
              /\ a.type # "string" => b.val = a.val

C2_Witness ==
    /\ Interpolated
    /\ \E p \in StringScalarPaths(InputTree) :
          Len(p) > 1 /\ At(OutputTree, p) # At(InputTree, p)
    /\ \E p \in StringScalarPaths(InputTree) :
          Len(p) = 1 /\ At(OutputTree, p) # At(InputTree, p)

\* the names of the placeholder tokens of s: after "$" the longest run of
\* identifier characters, after "${" the text up to the next "}"
IdentifierChars == {"A", "B", "x", "y"}

BareName(s, n) ==
    LET stop == {m \in (n + 1)..(Len(s) + 1) :
                    m = Len(s) + 1 \/ s[m] \notin IdentifierChars}
        first == CHOOSE m \in stop : \A k \in stop : m <= k
    IN SubSeq(s, n + 1, first - 1)

BracedNames(s, n) ==
    LET close == {m \in (n + 2)..Len(s) : s[m] = "}"} IN
    IF close = {} THEN {}
    ELSE {SubSeq(s, n + 2, (CHOOSE m \in close : \A k \in close : m <= k) - 1)}

PlaceholderNames(s) ==
    UNION {IF n < Len(s) /\ s[n + 1] = "{" THEN BracedNames(s, n)
           ELSE IF BareName(s, n) = <<>> THEN {} ELSE {BareName(s, n)}
           : n \in {m \in DOMAIN s : s[m] = "$"}}

\* C3 (as claimed): a string scalar whose placeholder tokens all name keys absent
\* from the map has the same value in the output.
C3_UnknownUntouched ==
    Interpolated =>
        \A p \in StringScalarPaths(InputTree) :
            (PlaceholderNames(At(InputTree, p).val) \cap MapKeys = {})
                => At(OutputTree, p) = At(InputTree, p)

\* the orders in which the keys of an object can be processed
KeyOrders(object) ==
    {[n \in DOMAIN object |-> object[f[n]]] : f \in Permutations(DOMAIN object)}

\* C4 (as claimed): every order of the map's keys gives the same output document.
C4_OrderIndependent ==
    pc = "called" =>
        \A other \in KeyOrders(secretsObject) :
            interpolate(other, templateContent) = result

\* C6: against an empty map interpolate returns, without error, a document with
\* the tree (structure and scalar values) of its input.
C6_EmptyMapIdentity ==
    (pc = "called" /\ templateContent.valid /\ secretsObject = <<>>) =>
        /\ ~result.threw
        /\ result.text.valid
        /\ OutputTree = InputTree

C6_Witness ==
    /\ pc = "called" /\ secretsObject = <<>> /\ ~result.threw
    /\ \E p \in StringScalarPaths(InputTree) :
          At(OutputTree, p) = Str(<<"$", "{", "A", "}">>)

\* C9 (as claimed): with extension .yaml or .yml, in any case, the three-argument
\* interpolate substitutes every key of the map as the two-argument one does; with
\* any other extension it returns the content unchanged.
C9_ExtensionGate ==
    pc = "called3" =>
        IF ToLowerCase(fileExtension) \in {".yaml", ".yml"}
        THEN LET expected == interpolate(secretsObject, templateContent) IN
             /\ result.threw = expected.threw
             /\ ~expected.threw => OutputTree = YamlLoad(expected.text)
        ELSE result = Returned(templateContent)

----------------------------------------------------------------------------
(* run(). *)

\* String.prototype.split(/\r\n|\r|\n/g): the lines from position n on, cur
\* being the line read so far
RECURSIVE SplitFrom(_, _, _)
SplitFrom(s, n, cur) ==
    IF n > Len(s) THEN <<cur>>
    ELSE IF s[n] = CR /\ n < Len(s) /\ s[n + 1] = LF
         THEN <<cur>> \o SplitFrom(s, n + 2, <<>>)
    ELSE IF s[n] \in {CR, LF}
         THEN <<cur>> \o SplitFrom(s, n + 1, <<>>)
    ELSE SplitFrom(s, n + 1, Append(cur, s[n]))

Split(s) == SplitFrom(s, 1, <<>>)

\* line.length >= minMaskLength, false against NaN
AtLeast(len, min) == ~min.nan /\ len >= min.n

\* mutant: > in place of >=
MaskedStrict(line, min) == line # <<>> /\ ~min.nan /\ Len(line) > min.n

\* if (line && line.length >= minMaskLength)
Masked(line, min) == line # <<>> /\ AtLeast(Len(line), min)

\* secretsObject[ref.output] = value
Put(object, key, val) ==
    IF \E n \in DOMAIN object : object[n].key = key
    THEN [n \in DOMAIN object |->
            IF object[n].key = key THEN [key |-> key, value |-> val] ELSE object[n]]
    ELSE Append(object, [key |-> key, value |-> val])

Ev(op, ref, line) == [op |-> op, ref |-> ref, line |-> line]
SetFailed == Ev("setFailed", 0, <<>>)

\* what the run can be given
RunKeys == {KeyA, KeyB}
RefLists == UNION {[1..n -> RunKeys] : n \in 0..MaxRefs}
SecretValues ==
    { <<"a", "b", LF, "c", "d", "e", "f", "g", "h">>,   \* "ab\ncdefgh"
      <<"x", "y", "z", CR, LF, CR, "x", "y", "z">> }    \* "xyz\r\n\rxyz"
MinMaskLengths == {NaN} \cup {Int0(n) : n \in 0..MaxMask}
RunDocument ==
    Obj(<<"a", "b">>, <<Str(<<"$", "A">>),
                        Arr(<<Str(<<"$", "{", "B", "}">>), Num(<<"7">>)>>)>>)
RunFiles == {SourceText(RunDocument), InvalidText}

Init ==
    /\ variant \in {"part_000", "main.ts"}
    /\ pc = "start"
    /\ fileExists \in BOOLEAN
    /\ minMaskLength \in MinMaskLengths
    /\ secretsRefs = <<>>
    /\ refIdx = 0
    /\ value = <<>>
    /\ lineIdx = 0
    /\ secretsObject = <<>>
    /\ fileContent \in RunFiles
    /\ templateContent = InvalidText
    /\ fileExtension = ""
    /\ result = NoResult
    /\ events = <<>>

\* part_000, up to the loop: the inputs, the existence check that reports and
\* goes on, the client and the reference parser
Start ==
    /\ pc = "start" /\ variant = "part_000"
    /\ \/ \* getInput('secrets', {required: true}) throws
          /\ events' = Append(events, SetFailed)
          /\ pc' = "done"
          /\ UNCHANGED <<secretsRefs, refIdx>>
       \/ \* new Client() or parseSecretsRefs throws
          /\ events' = events \o (IF fileExists THEN <<>> ELSE <<SetFailed>>)
                              \o <<SetFailed>>
          /\ pc' = "done"
          /\ UNCHANGED <<secretsRefs, refIdx>>
       \/ \E refs \in RefLists :
          /\ events' = events \o (IF fileExists THEN <<>> ELSE <<SetFailed>>)
          /\ secretsRefs' = refs
          /\ refIdx' = 1
          /\ pc' = "loop"
    /\ UNCHANGED <<variant, fileExists, minMaskLength, value, lineIdx, secretsObject,
                   fileContent, templateContent, fileExtension, result>>

\* main.ts: fs.existsSync(templateFilePath) reads an undeclared name; the
\* ReferenceError (or the missing input before it) goes to the catch
StartMainTs ==
    /\ pc = "start" /\ variant = "main.ts"
    /\ events' = Append(events, SetFailed)
    /\ pc' = "done"
    /\ UNCHANGED <<variant, fileExists, minMaskLength, secretsRefs, refIdx, value,
                   lineIdx, secretsObject, fileContent, templateContent,
                   fileExtension, result>>

\* client.accessSecret(ref.selfLink()) is called and awaited
AccessSecret ==
    /\ pc = "loop" /\ refIdx <= Len(secretsRefs)
    /\ events' = Append(events, Ev("fetch", refIdx, <<>>))
    /\ pc' = "await"
    /\ UNCHANGED <<variant, fileExists, minMaskLength, secretsRefs, refIdx, value,
                   lineIdx, secretsObject, fileContent, templateContent,
                   fileExtension, result>>

\* mutant: the value enters secretsObject before its lines are masked
AccessSecretReturnStoresFirst ==
    /\ pc = "await"
    /\ \E v \in SecretValues :
          /\ value' = v
          /\ secretsObject' = Put(secretsObject, secretsRefs[refIdx], v)
          /\ events' = events \o <<Ev("fetched", refIdx, v), Ev("store", refIdx, v)>>
    /\ lineIdx' = 1
    /\ pc' = "mask"
    /\ UNCHANGED <<variant, fileExists, minMaskLength, secretsRefs, refIdx,
                   fileContent, templateContent, fileExtension, result>>

AccessSecretReturn ==
    /\ pc = "await"
    /\ \E v \in SecretValues :
          /\ value' = v
          /\ events' = Append(events, Ev("fetched", refIdx, v))
    /\ lineIdx' = 1
    /\ pc' = "mask"
    /\ UNCHANGED <<variant, fileExists, minMaskLength, secretsRefs, refIdx,
                   secretsObject, fileContent, templateContent, fileExtension, result>>

\* mutant: the rejection is caught inside the loop, which goes on
AccessSecretFailContinues ==
    /\ pc = "await"
    /\ events' = Append(events, Ev("fetchFailed", refIdx, <<>>))
    /\ refIdx' = refIdx + 1
    /\ pc' = "loop"
    /\ UNCHANGED <<variant, fileExists, minMaskLength, secretsRefs, value,
                   lineIdx, secretsObject, fileContent, templateContent,
                   fileExtension, result>>

\* the awaited call rejects: the catch reports
AccessSecretFail ==
    /\ pc = "await"
    /\ events' = events \o <<Ev("fetchFailed", refIdx, <<>>), SetFailed>>
    /\ pc' = "done"
    /\ UNCHANGED <<variant, fileExists, minMaskLength, secretsRefs, refIdx, value,
                   lineIdx, secretsObject, fileContent, templateContent,
                   fileExtension, result>>

\* one callback of value.split(...).forEach
MaskLine ==
    /\ pc = "mask" /\ lineIdx <= Len(Split(value))
    /\ LET line == Split(value)[lineIdx] IN
       events' = IF Masked(line, minMaskLength)
                 THEN Append(events, Ev("setSecret", refIdx, line))
                 ELSE events
    /\ lineIdx' = lineIdx + 1
    /\ UNCHANGED <<variant, pc, fileExists, minMaskLength, secretsRefs, refIdx, value,
                   secretsObject, fileContent, templateContent, fileExtension, result>>

\* secretsObject[ref.output] = value, and on to the next reference
StoreSecret ==
    /\ pc = "mask" /\ lineIdx > Len(Split(value))
    /\ secretsObject' = Put(secretsObject, secretsRefs[refIdx], value)
    /\ events' = Append(events, Ev("store", refIdx, value))
    /\ refIdx' = refIdx + 1
    /\ pc' = "loop"
    /\ UNCHANGED <<variant, fileExists, minMaskLength, secretsRefs, value, lineIdx,
                   fileContent, templateContent, fileExtension, result>>

\* fs.readFileSync(helmValueFile, "utf8"), which throws when the file is missing
ReadFile ==
    /\ pc = "loop" /\ refIdx > Len(secretsRefs)
    /\ IF fileExists
       THEN /\ templateContent' = fileContent
            /\ events' = Append(events, Ev("read", 0, <<>>))
            /\ pc' = "interpolate"
       ELSE /\ events' = Append(events, SetFailed)
            /\ pc' = "done"
            /\ UNCHANGED templateContent
    /\ UNCHANGED <<variant, fileExists, minMaskLength, secretsRefs, refIdx, value,
                   lineIdx, secretsObject, fileContent, fileExtension, result>>

\* templateContent = interpolate(secretsObject, templateContent)
Interpolate ==
    /\ pc = "interpolate"
    /\ result' = interpolate(secretsObject, templateContent)
    /\ IF result'.threw
       THEN /\ events' = Append(events, SetFailed)
            /\ pc' = "done"
            /\ UNCHANGED templateContent
       ELSE /\ templateContent' = result'.text
            /\ pc' = "write"
            /\ UNCHANGED events
    /\ UNCHANGED <<variant, fileExists, minMaskLength, secretsRefs, refIdx, value,
                   lineIdx, secretsObject, fileContent, fileExtension>>

\* fs.writeFileSync(helmValueFile, templateContent), which the file system may refuse
WriteFile ==
    /\ pc = "write"
    /\ \/ /\ fileContent' = templateContent
          /\ events' = Append(events, Ev("write", 0, <<>>))
          /\ pc' = "output"
       \/ /\ events' = Append(events, SetFailed)
          /\ pc' = "done"
          /\ UNCHANGED fileContent
    /\ UNCHANGED <<variant, fileExists, minMaskLength, secretsRefs, refIdx, value,
                   lineIdx, secretsObject, templateContent, fileExtension, result>>

\* setOutput("output_file", helmValueFile)
SetOutput ==
    /\ pc = "output"
    /\ events' = Append(events, Ev("setOutput", 0, <<>>))
    /\ pc' = "done"
    /\ UNCHANGED <<variant, fileExists, minMaskLength, secretsRefs, refIdx, value,
                   lineIdx, secretsObject, fileContent, templateContent,
                   fileExtension, result>>

Next ==
    \/ Start
    \/ StartMainTs
    \/ AccessSecret
    \/ AccessSecretReturn
    \/ AccessSecretFail
    \/ MaskLine
    \/ StoreSecret
    \/ ReadFile
    \/ Interpolate
    \/ WriteFile
    \/ SetOutput

Spec == Init /\ [][Next]_vars

----------------------------------------------------------------------------
(* Vocabulary of the claims about run(). *)

\* where a line break of v starts: a CR, or an LF that does not follow a CR
Breaks(v) ==
    {n \in DOMAIN v : v[n] = CR \/ (v[n] = LF /\ (n = 1 \/ v[n - 1] # CR))}

NthBreak(v, k) ==
    CHOOSE b \in Breaks(v) : Cardinality({c \in Breaks(v) : c < b}) = k - 1

IsLineChar(c) == c \notin {CR, LF}

\* v split on "\r\n", "\r" or "\n", stated without scanning: the k-th line is
\* what lies between the (k-1)-th and the k-th break
LinesOf(v) ==
    [k \in 1..(Cardinality(Breaks(v)) + 1) |->
        LET lo == IF k = 1 THEN 0 ELSE NthBreak(v, k - 1)
            hi == IF k = Cardinality(Breaks(v)) + 1 THEN Len(v) + 1 ELSE NthBreak(v, k)
        IN SelectSeq(SubSeq(v, lo + 1, hi - 1), IsLineChar)]

\* the lines registered (setSecret) for reference k, in call order
RegisteredFor(k) ==
    LET IsMine(e) == e.op = "setSecret" /\ e.ref = k
        mine == SelectSeq(events, IsMine)
    IN [n \in DOMAIN mine |-> mine[n].line]

Stored == {n \in DOMAIN events : events[n].op = "store"}

\* a line that is to be registered: not empty, and at least as long as a
\* minimum mask length that is a number
Qualifies(line) ==
    line # <<>> /\ ~minMaskLength.nan /\ Len(line) >= minMaskLength.n

\* C5 (as claimed): a line of the value is registered if and only if its length
\* is at least the minimum mask length, once per such line.
C5_MaskIffLongEnough ==
    ~minMaskLength.nan =>
        \A n \in Stored :
            LET LongEnough(line) == Len(line) >= minMaskLength.n IN
            RegisteredFor(events[n].ref) = SelectSeq(LinesOf(events[n].line), LongEnough)

\* C5 (amended): a line of the value is registered if and only if it is not empty
\* and its length is at least the minimum mask length, once per such line and in
\* line order; when the minimum mask length is not a number no line is registered.
C5_MaskIffNonEmptyLongEnough ==
    \A n \in Stored :
        RegisteredFor(events[n].ref) = SelectSeq(LinesOf(events[n].line), Qualifies)

\* the spec's example: "ab\ncdefgh" with minimum 3 registered only "cdefgh"
C5_Witness ==
    /\ minMaskLength = Int0(3)
    /\ \E n \in Stored :
          /\ events[n].line = <<"a", "b", LF, "c", "d", "e", "f", "g", "h">>
          /\ RegisteredFor(events[n].ref) = << <<"c", "d", "e", "f", "g", "h">> >>

Positions(op) == {n \in DOMAIN events : events[n].op = op}

\* C7: references are fetched one at a time in parser order, and a failed fetch
\* ends the run: nothing is fetched, registered, stored, read or written after it,
\* output_file is not set, and the failure is reported.
C7_SequentialFetchAbort ==
    /\ \A n \in Positions("fetch") :
          LET k == events[n].ref IN
          /\ k = Cardinality({m \in Positions("fetch") : m <= n})
          /\ k <= Len(secretsRefs)
          /\ k > 1 => \E m \in 1..(n - 1) :
                          events[m].op = "fetched" /\ events[m].ref = k - 1
    /\ \A n \in Positions("fetchFailed") :
          /\ \A m \in (n + 1)..Len(events) : events[m] = SetFailed
          /\ \E m \in (n + 1)..Len(events) : events[m] = SetFailed
          /\ pc = "done"
    /\ Positions("fetchFailed") # {} =>
          Positions("write") = {} /\ Positions("setOutput") = {}

\* the first reference was fetched, the second failed, the third was never asked for
C7_Witness ==
    /\ pc = "done"
    /\ Len(secretsRefs) = 3
    /\ \E n \in Positions("fetched") : events[n].ref = 1
    /\ \E n \in Positions("fetchFailed") : events[n].ref = 2
    /\ Positions("write") = {} /\ Positions("setOutput") = {}

QualifyingLines(v) == {line \in Range(LinesOf(v)) : Qualifies(line)}

RegisteredBefore(line, n) ==
    \E m \in 1..(n - 1) : events[m].op = "setSecret" /\ events[m].line = line

\* C8: every qualifying line of a value is registered before the value is stored
\* in the substitution map, and every value of the map is so registered before
\* the document is read, written or announced.
C8_MaskBeforeUse ==
    /\ \A n \in Stored :
          \A line \in QualifyingLines(events[n].line) : RegisteredBefore(line, n)
    /\ \A k \in DOMAIN secretsObject :
          \A line \in QualifyingLines(secretsObject[k].value) :
              /\ RegisteredBefore(line, Len(events) + 1)
              /\ \A n \in Positions("read") \cup Positions("write") \cup Positions("setOutput") :
                    RegisteredBefore(line, n)

\* a document holding a fetched value was written after its lines were registered
C8_Witness ==
    /\ Positions("write") # {}
    /\ Positions("setSecret") # {}
    /\ \E k \in DOMAIN secretsObject :
          /\ QualifyingLines(secretsObject[k].value) # {}
          /\ \E p \in StringScalarPaths(YamlLoad(fileContent)) :
                At(YamlLoad(fileContent), p).val = secretsObject[k].value

\* C10 (as claimed): failure is reported at most once and nothing follows the
\* report: no fetch, no registration, no read or write, no second report.
C10_FailureIsFinal ==
    \A n \in Positions("setFailed") : n = Len(events)

====
